---- MODULE Spec2Model ----
(***************************************************************************)
(* MOLA MEGDR label analyzer (src/analyze_mola_labels.py).                 *)
(*                                                                         *)
(* A MolaLabelParser holds label_files (a list of paths) and datasets (an  *)
(* insertion-ordered mapping from a resolution key to a list of parsed     *)
(* records).  find_label_files, analyze_all_labels and print_summary are   *)
(* its operations; print_summary computes the per-region coverage, the     *)
(* longitude gaps and the overlaps between adjacent resolutions.           *)
(*                                                                         *)
(* Degrees are modelled as integers; a missing value (Python None) is the  *)
(* out-of-range integer None.  A file name is modelled by what the regular *)
(* expressions of extract_key_info read from it.                           *)
(***************************************************************************)
EXTENDS Integers, Sequences, FiniteSets, TLC

\* ------------------------------------------------------------------ bounds

\* Largest number of label files in the directory (specifications Spec, SpecGaps).
MaxFiles == 3

\* Largest number of label files in the directory (specification SpecOverlaps).
MaxTiles == 4

\* Cap on len(label_files) and on the number of records held in datasets:
\* repeated calls grow both without limit.
MaxHeld == 4

\* --------------------------------------------------------------- constants

\* Python's None: the value of a field that no regular expression matched.
None == -999

\* Tolerance of the pairwise gap test (line 216).
GapTolerance == 1

\* The wraparound test (line 221): last lon_max < WrapMax and first lon_min > WrapMin.
WrapMax == 359

WrapMin == 1

\* Latitude below which a Near-Polar South tile counts as south polar (line 177).
SouthPolarLat == -75

\* The region groups print_summary lists, in its order (line 143).
RegionGroups ==
    << "Equatorial", "Mid-North", "Mid-South", "Near-Polar North",
       "Near-Polar South", "North Polar", "South Polar" >>

\* ----------------------------------------------------------------- helpers

Min(a, b) == IF a <= b THEN a ELSE b

Max(a, b) == IF a >= b THEN a ELSE b

Abs(a) == IF a < 0 THEN -a ELSE a

Range(s) == {s[i] : i \in 1..Len(s)}

\* s without the elements that fail Keep, order kept (a list comprehension).
Filter(s, Keep(_)) ==
    LET f[i \in 0..Len(s)] ==
            IF i = 0 THEN <<>>
            ELSE IF Keep(s[i]) THEN Append(f[i-1], s[i]) ELSE f[i-1]
    IN f[Len(s)]

\* Python's sorted(): a stable sort.  x goes behind every element that may
\* stay in front of it (Before(e, x): e's key <= x's key, or >= with reverse=True).
InsertSorted(sorted, x, Before(_, _)) ==
    LET p == Cardinality({j \in 1..Len(sorted) : Before(sorted[j], x)})
    IN SubSeq(sorted, 1, p) \o <<x>> \o SubSeq(sorted, p + 1, Len(sorted))

StableSort(s, Before(_, _)) ==
    LET f[i \in 0..Len(s)] ==
            IF i = 0 THEN <<>> ELSE InsertSorted(f[i-1], s[i], Before)
    IN f[Len(s)]

\* The concatenation of a sequence of sequences.
Flatten(ss) ==
    LET f[i \in 0..Len(ss)] == IF i = 0 THEN <<>> ELSE f[i-1] \o ss[i]
    IN f[Len(ss)]

\* The sum of a sequence of integers.
SumSeq(s) ==
    LET f[i \in 0..Len(s)] == IF i = 0 THEN 0 ELSE f[i-1] + s[i]
    IN f[Len(s)]

\* Python's truth value of a float-or-None: None and 0.0 are false.
Truthy(v) == v # None /\ v # 0

\* ------------------------------------------------------------- label files

\* A label file: what extract_key_info reads from its name and its content.
\*   filename    the base name
\*   resdigits   group 1 of megt.*?(\d+)_(\d+)\.lbl in the name, or None
\*   tag         the first of hb, gb, fb, eb the name contains, or ""
\*   polar       "n" / "s" when the name contains megt_n_ / megt_s_, else ""
\*   band, hemi  the groups of megt(\d+)([ns]) in the name, band None without a match
\*   lat_min ..  the MINIMUM_LATITUDE, MAXIMUM_LATITUDE, WESTERNMOST_LONGITUDE
\*               and EASTERNMOST_LONGITUDE values of the content, None when absent
LabelFile(filename, resdigits, tag, polar, band, hemi, lat_min, lat_max, lon_min, lon_max) ==
    [ filename |-> filename, resdigits |-> resdigits, tag |-> tag, polar |-> polar,
      band |-> band, hemi |-> hemi,
      lat_min |-> lat_min, lat_max |-> lat_max, lon_min |-> lon_min, lon_max |-> lon_max ]

\* A standard tile megt<band><hemi><lon><tag>.lbl.
Tile(filename, tag, band, hemi, lat_min, lat_max, lon_min, lon_max) ==
    LabelFile(filename, None, tag, "", band, hemi, lat_min, lat_max, lon_min, lon_max)

\* pixels_per_degree from the file name (lines 54-66).
PixelsPerDegree(f) ==
    IF f.resdigits # None THEN f.resdigits
    ELSE CASE f.tag = "hb" -> 128
           [] f.tag = "gb" -> 64
           [] f.tag = "fb" -> 32
           [] f.tag = "eb" -> 16
           [] OTHER -> None

\* The region of a standard name (lines 107-114); "N° North" stands for
\* f'{latitude}° {hemisphere}' of any other band.
BandRegion(band, hemisphere) ==
    CASE band = 0 -> "Equatorial"
      [] band = 44 -> IF hemisphere = "North" THEN "Mid-North" ELSE "Mid-South"
      [] band = 88 -> IF hemisphere = "North" THEN "Near-Polar North" ELSE "Near-Polar South"
      [] OTHER -> IF hemisphere = "North" THEN "N° North" ELSE "N° South"

\* region from the file name (lines 94-116).
Region(f) ==
    IF f.polar = "n" THEN "North Polar"
    ELSE IF f.polar = "s" THEN "South Polar"
    ELSE IF f.band # None
         THEN BandRegion(f.band, IF f.hemi = "n" THEN "North" ELSE "South")
         ELSE "Unknown"

\* extract_key_info: the record of one label file.
extract_key_info(f) ==
    [ filename |-> f.filename,
      pixels_per_degree |-> PixelsPerDegree(f),
      lat_min |-> f.lat_min, lat_max |-> f.lat_max,
      lon_min |-> f.lon_min, lon_max |-> f.lon_max,
      region |-> Region(f) ]

\* Python's `sub in region` for the substrings the code tests.
RegionContains(region, sub) ==
    IF sub = "Polar"
    THEN region \in {"North Polar", "South Polar", "Near-Polar North", "Near-Polar South"}
    ELSE region = sub

\* ---------------------------------------------------------------- catalogs

\* Label files of the default specification: standard tiles with a bound equal
\* to 0, tiles with missing bounds, a polar product, names that give no
\* resolution or no region.
Catalog ==
    { Tile("megt00n000hb.lbl", "hb", 0, "n", -44, 0, 0, 90),
      Tile("megt44n000gb.lbl", "gb", 44, "n", 0, 44, 0, 90),
      Tile("megt44s090hb.lbl", "hb", 44, "s", -88, -44, 90, 180),
      Tile("megt44s180hb.lbl", "hb", 44, "s", -88, -44, 180, None),
      Tile("megt44s270gb.lbl", "gb", 44, "s", -88, -44, 100, 200),
      Tile("megt88s000gb.lbl", "gb", 88, "s", None, -44, 10, 90),
      Tile("megt44s000gb.lbl", "gb", 44, "s", None, -44, 5, 80),
      LabelFile("megt_s_512_1.lbl", 512, "", "s", None, "", -88, -75, 0, 360),
      LabelFile("survey_hb.lbl", None, "hb", "", None, "", -50, -40, None, 170),
      LabelFile("notes.lbl", None, "", "", None, "", None, None, None, None) }

\* Label files of SpecGaps: tiles of one band and resolution whose longitude
\* intervals touch, leave gaps, nest and wrap; tiles with missing longitudes;
\* polar and near-polar products.
GapCatalog ==
    { Tile("megt00n000hb.lbl", "hb", 0, "n", -44, 0, 0, 100),
      Tile("megt00n105hb.lbl", "hb", 0, "n", -44, 0, 105, 200),
      Tile("megt00n100hb.lbl", "hb", 0, "n", -44, 0, 100, 200),
      Tile("megt00n200hb.lbl", "hb", 0, "n", -44, 0, 200, 360),
      Tile("megt00n010hb.lbl", "hb", 0, "n", -44, 0, 10, 200),
      Tile("megt00n210hb.lbl", "hb", 0, "n", -44, 0, 210, 350),
      Tile("megt00n201hb.lbl", "hb", 0, "n", -44, 0, 201, 360),
      Tile("megt00n020hb.lbl", "hb", 0, "n", -44, 0, 20, 50),
      Tile("megt00n030hb.lbl", "hb", 0, "n", -44, 0, 30, None),
      Tile("megt00n040hb.lbl", "hb", 0, "n", None, 0, None, None),
      Tile("megt88n000hb.lbl", "hb", 88, "n", 44, 88, 10, 100),
      Tile("megt88n105hb.lbl", "hb", 88, "n", 44, 88, 105, 200),
      LabelFile("megt_n_128_1.lbl", 128, "", "n", None, "", 75, 88, 10, 100) }

\* Label files of SpecOverlaps: rectangles of three resolutions that overlap
\* with areas 5, 20 and 5, share a boundary, or are disjoint; a record with a
\* missing bound; a name that gives no resolution.
OverlapCatalog ==
    { Tile("megt22n010hb.lbl", "hb", 22, "n", 0, 10, 10, 20),
      Tile("megt22n011hb.lbl", "hb", 22, "n", 0, 10, 10, None),
      Tile("megt22n019gb.lbl", "gb", 22, "n", 0, 5, 19, 30),
      Tile("megt22n018gb.lbl", "gb", 22, "n", 0, 10, 18, 40),
      Tile("megt22n020gb.lbl", "gb", 22, "n", 5, 10, 19, 30),
      Tile("megt22n000gb.lbl", "gb", 22, "n", 0, 10, 0, 10),
      Tile("megt22n010fb.lbl", "fb", 22, "n", 0, 10, 10, 20),
      Tile("megt22n050fb.lbl", "fb", 22, "n", 20, 30, 50, 60),
      LabelFile("notes.lbl", None, "", "", None, "", 0, 10, 10, 20) }

\* The injective sequences of at most n elements of S: a directory listing
\* (glob returns the files of a directory once each, in no fixed order).
Listings(S, n) ==
    UNION { { s \in [1..k -> S] : \A i, j \in 1..k : s[i] = s[j] => i = j } : k \in 0..n }

\* ------------------------------------------------------------------- state

VARIABLES
    directory,     \* the .lbl files glob finds under self.directory, in glob's order
    label_files,   \* self.label_files
    datasets,      \* self.datasets: a sequence of [key, files] in insertion order
    report         \* the last print_summary: the datasets it read, what it computed
                   \* and printed, and the exception that ended it

vars == << directory, label_files, datasets, report >>

\* Nothing printed yet.
NoReport ==
    [ error |-> "not run", datasets |-> <<>>, coverage |-> <<>>, south_polar |-> FALSE,
      gap_checks |-> <<>>, comparisons |-> <<>> ]

\* __init__ (lines 15-18).
InitParser ==
    /\ label_files = <<>>
    /\ datasets = <<>>
    /\ report = NoReport

Init == directory \in Listings(Catalog, MaxFiles) /\ InitParser

InitGaps == directory \in Listings(GapCatalog, MaxFiles) /\ InitParser

InitOverlaps == directory \in Listings(OverlapCatalog, MaxTiles) /\ InitParser

\* ------------------------------------------------------- find_label_files

\* label_files after find_label_files (lines 25-31): extended, never reset.
FoundLabelFiles(files) == files \o directory

find_label_files ==
    /\ Len(label_files) + Len(directory) <= MaxHeld
    /\ label_files' = FoundLabelFiles(label_files)
    /\ UNCHANGED << directory, datasets, report >>

\* ------------------------------------------------------ analyze_all_labels

\* The resolution key f"{pixels_per_degree} pixels/degree", kept as the number
\* (None for "None pixels/degree").
ResolutionKey(info) == info.pixels_per_degree

\* self.datasets[resolution_key].append(info) on a defaultdict(list) (line 129).
AppendRecord(ds, info) ==
    LET key == ResolutionKey(info)
        at == {i \in 1..Len(ds) : ds[i].key = key}
    IN IF at = {}
       THEN Append(ds, [key |-> key, files |-> <<info>>])
       ELSE [ds EXCEPT ![CHOOSE i \in at : TRUE].files = Append(@, info)]

\* The loop of analyze_all_labels over the label files (lines 126-129).
AnalyzedLabels(ds, files) ==
    LET f[i \in 0..Len(files)] ==
            IF i = 0 THEN ds ELSE AppendRecord(f[i-1], extract_key_info(files[i]))
    IN f[Len(files)]

\* label_files as analyze_all_labels leaves it (lines 122-123).
LabelFilesForAnalysis(files) == IF files = <<>> THEN FoundLabelFiles(files) ELSE files

NumRecords(ds) == SumSeq([i \in 1..Len(ds) |-> Len(ds[i].files)])

analyze_all_labels ==
    /\ NumRecords(datasets) + Len(LabelFilesForAnalysis(label_files)) <= MaxHeld
    /\ label_files' = LabelFilesForAnalysis(label_files)
    /\ datasets' = AnalyzedLabels(datasets, label_files')
    /\ UNCHANGED << directory, report >>

\* ------------------------------------------------------------ print_summary

\* The file names of the catalogs in Python's string order.
FileNames ==
    << "megt00n000hb.lbl", "megt00n010hb.lbl", "megt00n020hb.lbl", "megt00n030hb.lbl",
       "megt00n040hb.lbl", "megt00n100hb.lbl", "megt00n105hb.lbl", "megt00n200hb.lbl",
       "megt00n201hb.lbl", "megt00n210hb.lbl", "megt22n000gb.lbl",
       "megt22n010fb.lbl", "megt22n010hb.lbl", "megt22n011hb.lbl", "megt22n018gb.lbl",
       "megt22n019gb.lbl", "megt22n020gb.lbl", "megt22n050fb.lbl", "megt44n000gb.lbl",
       "megt44s000gb.lbl", "megt44s090hb.lbl", "megt44s180hb.lbl", "megt44s270gb.lbl",
       "megt88n000hb.lbl", "megt88n105hb.lbl", "megt88s000gb.lbl", "megt_n_128_1.lbl",
       "megt_s_512_1.lbl", "notes.lbl", "survey_hb.lbl" >>

\* a.filename <= b.filename.
NameBefore(a, b) ==
    LET rank(n) == CHOOSE i \in 1..Len(FileNames) : FileNames[i] = n
    IN rank(a.filename) <= rank(b.filename)

\* int(key.split()[0]) raises ValueError on the key "None pixels/degree".
HasUnreadableKey(ds) == \E i \in 1..Len(ds) : ds[i].key = None

\* The datasets sorted by int(key), reverse=True (lines 140, 232).
HigherFirst(a, b) == a.key >= b.key

SortedDatasets(ds) == StableSort(ds, HigherFirst)

\* The approximate coverage of one record in square degrees (lines 152-154).
FileCoverage(file_info) ==
    LET lat_range == IF Truthy(file_info.lat_max) /\ Truthy(file_info.lat_min)
                     THEN Abs(file_info.lat_max - file_info.lat_min) ELSE 0
        lon_range == IF Truthy(file_info.lon_max) /\ Truthy(file_info.lon_min)
                     THEN Abs(file_info.lon_max - file_info.lon_min) ELSE 0
    IN lat_range * lon_range

\* One region group of one resolution (lines 144-161): its files as listed,
\* sorted by file name, and their summed coverage.  The percentage of the
\* surface printed beside it is a fixed scaling of the sum and is left out.
RegionCoverage(resolution, region_group, files) ==
    LET InGroup(f) == RegionContains(f.region, region_group)
        region_files == Filter(files, InGroup)
        listed == StableSort(region_files, NameBefore)
    IN IF region_files = <<>> THEN <<>>
       ELSE << [ resolution |-> resolution, region |-> region_group, files |-> listed,
                 total_coverage |-> SumSeq([i \in 1..Len(listed) |-> FileCoverage(listed[i])]) ] >>

\* The coverage part of the summary (lines 140-161), in print order.
Coverage(ds) ==
    LET sorted == SortedDatasets(ds)
    IN Flatten([i \in 1..Len(sorted) |->
          Flatten([g \in 1..Len(RegionGroups) |->
              RegionCoverage(sorted[i].key, RegionGroups[g], sorted[i].files)])])

\* ------------------------------------------------- _analyze_coverage_gaps

\* All records in the order the south-polar check visits them (lines 175-176).
AllRecords(ds) == Flatten([i \in 1..Len(ds) |-> ds[i].files])

\* The condition of line 177 on one record: "yes", "no", or "TypeError" when
\* lat_min, present as a key with the value None, is compared with -75.
SouthPolarTest(file_info) ==
    IF RegionContains(file_info.region, "South Polar") THEN "yes"
    ELSE IF RegionContains(file_info.region, "Near-Polar South")
         THEN IF file_info.lat_min = None THEN "TypeError"
              ELSE IF file_info.lat_min <= SouthPolarLat THEN "yes" ELSE "no"
         ELSE "no"

\* The south-polar presence check (lines 174-181): the first record whose test
\* is not "no" decides; "no" when there is none.
SouthPolarCheck(ds) ==
    LET recs == AllRecords(ds)
        hits == {i \in 1..Len(recs) : SouthPolarTest(recs[i]) # "no"}
    IN IF hits = {} THEN "no"
       ELSE SouthPolarTest(recs[CHOOSE i \in hits : \A j \in hits : i <= j])

\* regions[file_info.get('region', 'Unknown')].append(file_info) (lines 188-190).
AppendToRegion(regions, file_info) ==
    LET at == {i \in 1..Len(regions) : regions[i].region = file_info.region}
    IN IF at = {}
       THEN Append(regions, [region |-> file_info.region, files |-> <<file_info>>])
       ELSE [regions EXCEPT ![CHOOSE i \in at : TRUE].files = Append(@, file_info)]

RegionsOf(dataset) ==
    LET f[i \in 0..Len(dataset)] ==
            IF i = 0 THEN <<>> ELSE AppendToRegion(f[i-1], dataset[i])
    IN f[Len(dataset)]

\* The sort key of line 198: x.get('lon_min', 0) or 0.
LonSortKey(file_info) == IF Truthy(file_info.lon_min) THEN file_info.lon_min ELSE 0

LonBefore(a, b) == LonSortKey(a) <= LonSortKey(b)

\* HasLonBounds testing lon_min alone.
HasLonBoundsMinOnly(file_info) == file_info.lon_min # None

\* A record has both longitude bounds (line 206).
HasLonBounds(file_info) == file_info.lon_min # None /\ file_info.lon_max # None

\* Whether the gap check of a group goes ahead (line 201).
EnoughFiles(files_sorted) == Len(files_sorted) > 1

\* longitude_coverage (lines 202-207): the (lon_min, lon_max) of the sorted
\* files that have both.
LongitudeCoverage(files_sorted) ==
    LET usable == Filter(files_sorted, HasLonBounds)
    IN [i \in 1..Len(usable) |-> << usable[i].lon_min, usable[i].lon_max >>]

\* The pairwise test of line 216.
IsGap(prev_max, current_min) == current_min - prev_max > GapTolerance

\* PairwiseGaps with prev_max left at the first interval's lon_max.
PairwiseGapsStalePrev(longitude_coverage) ==
    LET prev_max == longitude_coverage[1][2]
        f[i \in 1..Len(longitude_coverage)] ==
            IF i = 1 THEN <<>>
            ELSE IF IsGap(prev_max, longitude_coverage[i][1])
                 THEN Append(f[i-1], << prev_max, longitude_coverage[i][1] >>)
                 ELSE f[i-1]
    IN f[Len(longitude_coverage)]

\* The loop of lines 212-218: f[i] is (gaps, prev_max) after interval i.
PairwiseGaps(longitude_coverage) ==
    LET f[i \in 1..Len(longitude_coverage)] ==
            IF i = 1 THEN [gaps |-> <<>>, prev_max |-> longitude_coverage[1][2]]
            ELSE LET current_min == longitude_coverage[i][1]
                 IN [ gaps |-> IF IsGap(f[i-1].prev_max, current_min)
                               THEN Append(f[i-1].gaps, << f[i-1].prev_max, current_min >>)
                               ELSE f[i-1].gaps,
                      prev_max |-> longitude_coverage[i][2] ]
    IN f[Len(longitude_coverage)].gaps

\* The wraparound test of lines 221-222.
WrapGap(longitude_coverage) ==
    LET last == longitude_coverage[Len(longitude_coverage)]
        first == longitude_coverage[1]
    IN IF last[2] < WrapMax /\ first[1] > WrapMin THEN << << last[2], first[1] >> >> ELSE <<>>

\* The gaps of one group (lines 209-222).
Gaps(longitude_coverage) ==
    IF longitude_coverage = <<>> THEN <<>>
    ELSE PairwiseGaps(longitude_coverage) \o WrapGap(longitude_coverage)

\* A group is skipped as a polar dataset (line 194).
IsPolar(region) == RegionContains(region, "Polar")

\* One region group of one resolution (lines 192-225): whether it was skipped
\* as polar, the intervals its check used, and the gaps printed for it.
GapCheck(resolution, group) ==
    LET files_sorted == StableSort(group.files, LonBefore)
        checked == ~IsPolar(group.region) /\ EnoughFiles(files_sorted)
        longitude_coverage == IF checked THEN LongitudeCoverage(files_sorted) ELSE <<>>
    IN [ resolution |-> resolution, region |-> group.region, files |-> group.files,
         exempt |-> IsPolar(group.region), checked |-> checked,
         longitude_coverage |-> longitude_coverage,
         gaps |-> Gaps(longitude_coverage) ]

\* The gap checks of all groups (lines 187-225), datasets in insertion order.
GapChecks(ds) ==
    Flatten([i \in 1..Len(ds) |->
        LET regions == RegionsOf(ds[i].files)
        IN [g \in 1..Len(regions) |-> GapCheck(ds[i].key, regions[g])]])

\* --------------------------------------------- _analyze_resolution_overlaps

\* A record has all four bounds (lines 248, 259).
HasAllBounds(file_info) ==
    /\ file_info.lat_min # None /\ file_info.lat_max # None
    /\ file_info.lon_min # None /\ file_info.lon_max # None

\* RectanglesOverlap with strict longitude comparisons.
RectanglesOverlapStrict(high_file, low_file) ==
    /\ high_file.lat_min <= low_file.lat_max /\ high_file.lat_max >= low_file.lat_min
    /\ high_file.lon_min < low_file.lon_max /\ high_file.lon_max > low_file.lon_min

\* RectanglesOverlap with one strict longitude comparison.
RectanglesOverlapHalfStrict(high_file, low_file) ==
    /\ high_file.lat_min <= low_file.lat_max /\ high_file.lat_max >= low_file.lat_min
    /\ high_file.lon_min < low_file.lon_max /\ high_file.lon_max >= low_file.lon_min

\* The overlap test of lines 263-266.
RectanglesOverlap(high_file, low_file) ==
    LET lat_overlap == high_file.lat_min <= low_file.lat_max
                       /\ high_file.lat_max >= low_file.lat_min
        lon_overlap == high_file.lon_min <= low_file.lon_max
                       /\ high_file.lon_max >= low_file.lon_min
    IN lat_overlap /\ lon_overlap

\* OverlapEntry with the upper latitude taken from the high-resolution record alone.
OverlapEntryHighLat(high_file, low_file) ==
    LET lat_overlap_min == Max(high_file.lat_min, low_file.lat_min)
        lat_overlap_max == high_file.lat_max
        lon_overlap_min == Max(high_file.lon_min, low_file.lon_min)
        lon_overlap_max == Min(high_file.lon_max, low_file.lon_max)
    IN [ file |-> low_file.filename, region |-> low_file.region,
         area |-> (lat_overlap_max - lat_overlap_min) * (lon_overlap_max - lon_overlap_min),
         lat_range |-> << lat_overlap_min, lat_overlap_max >>,
         lon_range |-> << lon_overlap_min, lon_overlap_max >> ]

\* The entry appended for an overlapping pair (lines 268-281).
OverlapEntry(high_file, low_file) ==
    LET lat_overlap_min == Max(high_file.lat_min, low_file.lat_min)
        lat_overlap_max == Min(high_file.lat_max, low_file.lat_max)
        lon_overlap_min == Max(high_file.lon_min, low_file.lon_min)
        lon_overlap_max == Min(high_file.lon_max, low_file.lon_max)
    IN [ file |-> low_file.filename, region |-> low_file.region,
         area |-> (lat_overlap_max - lat_overlap_min) * (lon_overlap_max - lon_overlap_min),
         lat_range |-> << lat_overlap_min, lat_overlap_max >>,
         lon_range |-> << lon_overlap_min, lon_overlap_max >> ]

\* overlaps of one high-resolution record (lines 242-281), in the order of the
\* low-resolution group; empty when the record lacks a bound.
OverlapsOf(high_file, low_group) ==
    IF ~HasAllBounds(high_file) THEN <<>>
    ELSE LET Hit(low_file) == HasAllBounds(low_file) /\ RectanglesOverlap(high_file, low_file)
             hits == Filter(low_group, Hit)
         IN [k \in 1..Len(hits) |-> OverlapEntry(high_file, hits[k])]

\* sorted(overlaps, key=area, reverse=True) (line 285): stable.
LargerFirst(a, b) == a.area >= b.area

\* SortOverlaps by a sort that is not stable: equal areas end up reversed.
StrictlyLargerFirst(a, b) == a.area > b.area

SortOverlapsUnstable(overlaps) == StableSort(overlaps, StrictlyLargerFirst)

SortOverlaps(overlaps) == StableSort(overlaps, LargerFirst)

\* What one comparison prints (lines 241-288): for each high-resolution record
\* with overlaps, in the group's order, its overlaps sorted by area.
CompareGroups(high_group, low_group) ==
    LET Reported(high_file) == OverlapsOf(high_file, low_group) # <<>>
        with == Filter(high_group, Reported)
    IN [k \in 1..Len(with) |->
          [ file |-> with[k].filename, region |-> with[k].region,
            overlaps |-> SortOverlaps(OverlapsOf(with[k], low_group)) ]]

\* ComparedPairs comparing every resolution with every lower one.
ComparedPairsAll(resolutions) ==
    LET n == Len(resolutions)
        row(i) == [j \in 1..(n - i) |-> << i, i + j >>]
    IN Flatten([i \in 1..n |-> row(i)])

\* The pairs of resolutions compared (lines 231-236): none with one resolution,
\* else each with the next lower one.
ComparedPairs(resolutions) ==
    IF Len(resolutions) > 1
    THEN [i \in 1..(Len(resolutions) - 1) |-> << i, i + 1 >>]
    ELSE <<>>

\* The overlap analysis (lines 231-288).
Comparisons(ds) ==
    LET resolutions == SortedDatasets(ds)
        pairs == ComparedPairs(resolutions)
    IN [k \in 1..Len(pairs) |->
          LET high == resolutions[pairs[k][1]]
              low == resolutions[pairs[k][2]]
          IN [ high_res |-> high.key, low_res |-> low.key,
               reports |-> CompareGroups(high.files, low.files) ]]

\* ------------------------------------------------------------ the summary

\* What print_summary prints for datasets ds, and the exception that ends it:
\* ValueError from the sort of line 140 before anything is computed, TypeError
\* from the south-polar check of line 177 after the coverage part.
Summary(ds) ==
    IF HasUnreadableKey(ds)
    THEN [NoReport EXCEPT !.error = "ValueError", !.datasets = ds]
    ELSE IF SouthPolarCheck(ds) = "TypeError"
    THEN [NoReport EXCEPT !.error = "TypeError", !.datasets = ds, !.coverage = Coverage(ds)]
    ELSE [ error |-> "none", datasets |-> ds, coverage |-> Coverage(ds),
           south_polar |-> SouthPolarCheck(ds) = "yes",
           gap_checks |-> GapChecks(ds), comparisons |-> Comparisons(ds) ]

\* print_summary (lines 133-167), with the analyze_all_labels it starts on
\* empty datasets.
print_summary ==
    /\ datasets = <<>> =>
           NumRecords(datasets) + Len(LabelFilesForAnalysis(label_files)) <= MaxHeld
    /\ label_files' = IF datasets = <<>> THEN LabelFilesForAnalysis(label_files)
                      ELSE label_files
    /\ datasets' = IF datasets = <<>> THEN AnalyzedLabels(datasets, label_files')
                   ELSE datasets
    /\ report' = Summary(datasets')
    /\ UNCHANGED directory

\* ---------------------------------------------------------- specifications

Next == find_label_files \/ analyze_all_labels \/ print_summary

Spec == Init /\ [][Next]_vars

SpecGaps == InitGaps /\ [][Next]_vars

SpecOverlaps == InitOverlaps /\ [][Next]_vars

\* -------------------------------------------------------------- properties

\* The summary ran to its end.
Completed == report.error = "none"

\* The coverage part of the summary was printed.
CoveragePrinted == report.error \in {"none", "TypeError"}

\* The records of the group with resolution key in the datasets the summary read.
GroupOf(key) ==
    LET at == {i \in 1..Len(report.datasets) : report.datasets[i].key = key}
    IN IF at = {} THEN <<>> ELSE report.datasets[CHOOSE i \in at : TRUE].files

\* C1: print_summary never ends in an exception, whichever fields
\* (lat_min, lat_max, lon_min, lon_max, the resolution) the records lack.
C1_NeverAborts == report.error \in {"not run", "none"}

\* The area of a record with all four bounds, 0 for a record missing one.
PresentBoundsArea(f) ==
    IF HasAllBounds(f)
    THEN Abs(f.lat_max - f.lat_min) * Abs(f.lon_max - f.lon_min)
    ELSE 0

\* C2: the total coverage of every listed resolution and region group is the
\* sum of |lat_max - lat_min| * |lon_max - lon_min| over its records with all
\* four bounds present, whatever their values; the others add nothing.
C2_CoverageSumsPresentBounds ==
    CoveragePrinted =>
        \A k \in 1..Len(report.coverage) :
            LET c == report.coverage[k]
            IN c.total_coverage =
                   SumSeq([i \in 1..Len(c.files) |-> PresentBoundsArea(c.files[i])])

\* The usable intervals of a group sorted ascending by lon_min: the records
\* with both longitude bounds are picked first and sorted after.
IntervalBefore(a, b) == a[1] <= b[1]

UsableIntervals(files) ==
    LET usable == Filter(files, HasLonBounds)
    IN StableSort([i \in 1..Len(usable) |-> << usable[i].lon_min, usable[i].lon_max >>],
                  IntervalBefore)

\* The gap list the specification describes for sorted intervals iv: the
\* consecutive pairs more than 1 degree apart, then the wraparound gap.
WideGap(pair) == pair[2] - pair[1] > 1

ExpectedGaps(iv) ==
    IF iv = <<>> THEN <<>>
    ELSE Filter([i \in 1..(Len(iv) - 1) |-> << iv[i][2], iv[i+1][1] >>], WideGap)
         \o (IF iv[Len(iv)][2] < 359 /\ iv[1][1] > 1
             THEN << << iv[Len(iv)][2], iv[1][1] >> >> ELSE <<>>)

\* C3 as stated: for every group that is not skipped as polar the gap list is
\* the one described, however few usable intervals the group has.
C3_GapListOfEveryGroup ==
    Completed =>
        \A k \in 1..Len(report.gap_checks) :
            LET e == report.gap_checks[k]
            IN ~e.exempt => e.gaps = ExpectedGaps(UsableIntervals(e.files))

\* C3, amended: for every group that is not skipped as polar and has at least
\* 2 usable intervals, the gap list is: for the usable intervals sorted by
\* lon_min, one gap (current.lon_max, next.lon_min) per consecutive pair more
\* than 1.0 apart, in order, then the wraparound gap (last.lon_max,
\* first.lon_min) iff last.lon_max < 359.0 and first.lon_min > 1.0.
C3_GapListWithTwoIntervals ==
    Completed =>
        \A k \in 1..Len(report.gap_checks) :
            LET e == report.gap_checks[k]
                iv == UsableIntervals(e.files)
            IN (~e.exempt /\ Len(iv) >= 2) =>
                   /\ e.longitude_coverage = iv
                   /\ e.gaps = ExpectedGaps(iv)

\* C3's cases happen: [0,100],[105,200] gives [(100,105)],
\* [0,100],[100,200],[200,360] gives no gap, or [10,200],[210,350] gives the
\* pairwise gap and the wraparound gap (350,10).
C3_Witness ==
    /\ Completed
    /\ \E k \in 1..Len(report.gap_checks) :
           LET e == report.gap_checks[k]
           IN /\ e.longitude_coverage = << <<10, 200>>, <<210, 350>> >>
              /\ e.gaps = << <<200, 210>>, <<350, 10>> >>

\* C4: a group with fewer than 2 usable intervals has no gap reported,
\* however many records with missing bounds it holds.
C4_NoGapBelowTwoIntervals ==
    Completed =>
        \A k \in 1..Len(report.gap_checks) :
            LET e == report.gap_checks[k]
            IN Len(UsableIntervals(e.files)) < 2 => e.gaps = <<>>

\* The keys of the datasets the summary read.
ReportKeys == {report.datasets[i].key : i \in 1..Len(report.datasets)}

\* low is the next resolution below high among those present.
AdjacentTiers(high, low) ==
    /\ high \in ReportKeys /\ low \in ReportKeys
    /\ high > low
    /\ ~\E mid \in ReportKeys : high > mid /\ mid > low

\* The overlap entries printed for the record named high under comparison c
\* against the record named low.
PrintedOverlaps(c, high, low) ==
    { o \in UNION { Range(c.reports[r].overlaps) :
                       r \in {q \in 1..Len(c.reports) : c.reports[q].file = high} } :
        o.file = low }

\* C5: a high-resolution record and a record of the adjacent lower resolution,
\* both with all four bounds, are reported as overlapping iff
\* high.lat_min <= low.lat_max, high.lat_max >= low.lat_min,
\* high.lon_min <= low.lon_max and high.lon_max >= low.lon_min; rectangles
\* that only share the boundary high.lon_min = low.lon_max are reported with
\* area 0.
C5_OverlapTest ==
    Completed =>
        \A high \in ReportKeys, low \in ReportKeys :
            AdjacentTiers(high, low) =>
                \E k \in 1..Len(report.comparisons) :
                    LET c == report.comparisons[k]
                    IN /\ c.high_res = high /\ c.low_res = low
                       /\ \A h \in Range(GroupOf(high)), l \in Range(GroupOf(low)) :
                              (HasAllBounds(h) /\ HasAllBounds(l)) =>
                                  LET printed == PrintedOverlaps(c, h.filename, l.filename)
                                  IN /\ printed # {} <=>
                                            ( /\ h.lat_min <= l.lat_max
                                              /\ h.lat_max >= l.lat_min
                                              /\ h.lon_min <= l.lon_max
                                              /\ h.lon_max >= l.lon_min )
                                     /\ (printed # {} /\ h.lon_min = l.lon_max) =>
                                            \A o \in printed : o.area = 0

\* C5's case happens: a pair sharing only the boundary high.lon_min =
\* low.lon_max is printed with area 0.
C5_Witness ==
    /\ Completed
    /\ \E k \in 1..Len(report.comparisons) :
           LET c == report.comparisons[k]
           IN \E h \in Range(GroupOf(c.high_res)), l \in Range(GroupOf(c.low_res)) :
                 /\ HasAllBounds(h) /\ HasAllBounds(l)
                 /\ h.lon_min = l.lon_max
                 /\ \E o \in PrintedOverlaps(c, h.filename, l.filename) : o.area = 0

\* C6: every reported overlap has the rectangle
\* [max(lat_min), min(lat_max)] x [max(lon_min), min(lon_max)] of its two
\* records, the product of its two edge lengths as area, and an area >= 0.
C6_OverlapRectangle ==
    Completed =>
        \A k \in 1..Len(report.comparisons) :
            LET c == report.comparisons[k]
            IN \A r \in 1..Len(c.reports) : \A o \in Range(c.reports[r].overlaps) :
                  \E h \in Range(GroupOf(c.high_res)), l \in Range(GroupOf(c.low_res)) :
                      /\ h.filename = c.reports[r].file /\ l.filename = o.file
                      /\ o.lat_range = << Max(h.lat_min, l.lat_min), Min(h.lat_max, l.lat_max) >>
                      /\ o.lon_range = << Max(h.lon_min, l.lon_min), Min(h.lon_max, l.lon_max) >>
                      /\ o.area = (o.lat_range[2] - o.lat_range[1])
                                       * (o.lon_range[2] - o.lon_range[1])
                      /\ o.area >= 0

\* C6's case happens: an overlap of positive area is reported.
C6_Witness ==
    /\ Completed
    /\ \E k \in 1..Len(report.comparisons) :
           \E r \in 1..Len(report.comparisons[k].reports) :
               \E o \in Range(report.comparisons[k].reports[r].overlaps) : o.area > 0

\* The pairs a comparison reports: the two file names, the rectangle, the area.
ReportedPairs(high_group, low_group) ==
    LET reports == CompareGroups(high_group, low_group)
    IN UNION { { [ high |-> reports[r].file, low |-> o.file, lat_range |-> o.lat_range,
                   lon_range |-> o.lon_range, area |-> o.area ] :
                 o \in Range(reports[r].overlaps) } : r \in 1..Len(reports) }

\* A set of reported pairs with the two roles swapped.
Swapped(pairs) == { [p EXCEPT !.high = p.low, !.low = p.high] : p \in pairs }

\* The groups of the datasets.
Groups == {datasets[i].files : i \in 1..Len(datasets)}

\* C7: the overlap computation is symmetric in its two groups: with the roles
\* of A and B exchanged it reports the same pairs, rectangles and areas.
C7_OverlapSymmetric ==
    \A A \in Groups, B \in Groups :
        ReportedPairs(A, B) = Swapped(ReportedPairs(B, A))

\* C7's case happens: two different groups with a reported pair, one of them
\* sharing only a boundary.
C7_Witness ==
    \E A \in Groups, B \in Groups :
        /\ A # B
        /\ \E p \in ReportedPairs(A, B) : p.area = 0
        /\ \E p \in ReportedPairs(A, B) : p.area > 0

\* The first position of the record named name in a group.
FirstIndex(group, name) ==
    CHOOSE i \in 1..Len(group) :
        /\ group[i].filename = name
        /\ \A j \in 1..Len(group) : group[j].filename = name => i <= j

\* C8: the overlaps of a high-resolution record are reported by area
\* descending, equal areas in the order of their records in the
\* low-resolution group.
C8_OverlapsSorted ==
    Completed =>
        \A k \in 1..Len(report.comparisons) :
            LET c == report.comparisons[k]
                low_group == GroupOf(c.low_res)
            IN \A r \in 1..Len(c.reports) :
                  LET ov == c.reports[r].overlaps
                  IN \A i, j \in 1..Len(ov) :
                        i < j =>
                            /\ ov[i].area >= ov[j].area
                            /\ ov[i].area = ov[j].area =>
                                   FirstIndex(low_group, ov[i].file)
                                       <= FirstIndex(low_group, ov[j].file)

\* C8's case happens: candidates with areas 5, 20, 5 in that order of the
\* low-resolution group are reported as 20, first 5, second 5.
C8_Witness ==
    /\ Completed
    /\ \E k \in 1..Len(report.comparisons) :
           LET c == report.comparisons[k]
               low_group == GroupOf(c.low_res)
           IN /\ [i \in 1..Len(low_group) |-> low_group[i].filename]
                     = << "megt22n019gb.lbl", "megt22n018gb.lbl", "megt22n020gb.lbl" >>
              /\ \E r \in 1..Len(c.reports) :
                     LET ov == c.reports[r].overlaps
                     IN /\ [i \in 1..Len(ov) |-> ov[i].area] = << 20, 5, 5 >>
                        /\ [i \in 1..Len(ov) |-> ov[i].file]
                               = << "megt22n018gb.lbl", "megt22n019gb.lbl", "megt22n020gb.lbl" >>

\* C9: with n >= 1 distinct resolutions the overlap analysis makes exactly
\* n-1 comparisons, in descending order of the resolution, each of a
\* resolution with the next lower one.
C9_AdjacentComparisons ==
    (Completed /\ ReportKeys # {}) =>
        /\ Len(report.comparisons) = Cardinality(ReportKeys) - 1
        /\ \A k \in 1..Len(report.comparisons) :
               AdjacentTiers(report.comparisons[k].high_res, report.comparisons[k].low_res)
        /\ \A k, m \in 1..Len(report.comparisons) :
               k < m => report.comparisons[k].high_res > report.comparisons[m].high_res

\* C9's case happens: three resolutions, two comparisons.
C9_Witness ==
    /\ Completed
    /\ Cardinality(ReportKeys) = 3
    /\ Len(report.comparisons) = 2

\* The records the summary read.
ReportRecords == Range(AllRecords(report.datasets))

\* The number of elements of a sequence that satisfy Keep.
Count(s, Keep(_)) == Cardinality({i \in 1..Len(s) : Keep(s[i])})

\* The record named name takes part in no reported overlap pair.
InNoOverlapPair(name) ==
    \A k \in 1..Len(report.comparisons) :
        \A r \in 1..Len(report.comparisons[k].reports) :
            /\ report.comparisons[k].reports[r].file # name
            /\ \A o \in Range(report.comparisons[k].reports[r].overlaps) : o.file # name

PolarRegions == {"North Polar", "South Polar"}

\* C11: only the groups tagged North Polar or South Polar are exempt from gap
\* detection: such a group has no gap reported, and every other group with at
\* least 2 usable intervals has each longitude gap wider than 1.0 between
\* consecutive intervals reported.
C11_OnlyPolarExempt ==
    Completed =>
        \A k \in 1..Len(report.gap_checks) :
            LET e == report.gap_checks[k]
                iv == UsableIntervals(e.files)
            IN /\ e.region \in PolarRegions => e.gaps = <<>>
               /\ (e.region \notin PolarRegions /\ Len(iv) >= 2) =>
                      \A i \in 1..(Len(iv) - 1) :
                          iv[i+1][1] - iv[i][2] > 1 =>
                              << iv[i][2], iv[i+1][1] >> \in Range(e.gaps)

\* A usable interval reaches into the open longitude range (a, b).
Covers(iv, a, b) == iv[1] < b /\ iv[2] > a

\* C12: every reported gap (a, b) that is not the wraparound gap (a < b) is
\* uncovered: no usable interval of its group reaches into (a, b), also when
\* the intervals of the group overlap or nest.
C12_GapsAreUncovered ==
    Completed =>
        \A k \in 1..Len(report.gap_checks) :
            LET e == report.gap_checks[k]
                iv == UsableIntervals(e.files)
            IN \A g \in Range(e.gaps) :
                  g[1] < g[2] => \A i \in 1..Len(iv) : ~Covers(iv[i], g[1], g[2])

\* How many times a label file is held in label_files.
TimesHeld(f) == Cardinality({i \in 1..Len(label_files) : label_files[i] = f})

\* The records of a label file in datasets, as << group, position >>.
RecordsOf(f) ==
    { p \in (1..Len(datasets)) \X (1..MaxHeld) :
        /\ p[2] <= Len(datasets[p[1]].files)
        /\ datasets[p[1]].files[p[2]].filename = f.filename }

\* C13: after any calls of find_label_files, analyze_all_labels and
\* print_summary over an unchanged directory, once files have been searched
\* each label file of the directory is held exactly once in label_files, once
\* labels have been analyzed each has exactly one record in datasets, under the
\* key of its own resolution, and no call ever duplicates a file or a record.
C13_HeldExactlyOnce ==
    \A f \in Range(directory) :
        /\ TimesHeld(f) <= 1
        /\ label_files # <<>> => TimesHeld(f) = 1
        /\ Cardinality(RecordsOf(f)) <= 1
        /\ datasets # <<>> => Cardinality(RecordsOf(f)) = 1
        /\ \A p \in RecordsOf(f) : datasets[p[1]].key = PixelsPerDegree(f)

====
